---- MODULE Spec2Model ----
(***************************************************************************)
(* Model of python/sglang/srt/disaggregation/trace_utils.py: the event     *)
(* recorder _EventContext (construction, reconfigure, range, mark), the    *)
(* module-level singleton accessors get_event_logger / init_event_logger,  *)
(* and the part of the logging registry the recorder relies on (one named  *)
(* logger per channel identifier, each with a handler list).               *)
(***************************************************************************)
EXTENDS Integers, Sequences, FiniteSets, TLC

(* ------------------------------ bounds --------------------------------- *)
\* recorders constructed in one run
MaxRec == 2
\* emitting calls made in one run: a mark, the entry of a range, the exit
\* of a range
MaxCalls == 2

(* ----------------------------- constants ------------------------------- *)
None == "None"
\* JSON null; a duration that was not given
Null == <<>>

DefaultLogFile == "events.log"
DefaultLoggerName == "event_logger"

\* sink paths and channel identifiers the callers use
Sinks == {"events.log", "t.log"}
\* a sink path that opens but takes no data: every write to it fails
FullSink == "/dev/full"
Channels == {"event_logger", "ch"}
RequestIds == {"req-1"}
EventNames == {"load"}

\* clock readings are integers: TicksPerMicro readings make one thousandth
\* of a millisecond, the resolution round(duration * 1000, 3) keeps
TicksPerMicro == 2

\* faults the wrapped block can raise: identity, class and str(e)
Faults ==
  { [id |-> 1, type |-> "ValueError",        msg |-> "boom"],
    [id |-> 2, type |-> "KeyboardInterrupt", msg |-> ""],
    [id |-> 3, type |-> "StopIteration",     msg |-> "si"] }

\* the caller's mapping objects (identity 1, 2) and their content on entry:
\* a mapping is a set of <<key, value>> pairs with distinct keys
DictIds == {1, 2}
\* a mapping (identity 3) with a value json.dumps cannot serialise
ObjectValue == "<object>"
BadDictId == 3
AllDictIds == DictIds \cup {BadDictId}
InitDicts ==
  [d \in AllDictIds |-> IF d = 1 THEN {}
                        ELSE IF d = 2 THEN {<<"k", "v">>}
                        ELSE {<<"k", ObjectValue>>}]

VARIABLES
  recorders,      \* Seq of _EventContext objects; the index is the identity
  event_context,  \* the module global _event_context: 0 (None) or an identity
  loggers,        \* logging registry: channel identifier -> logger object
  sinkLog,        \* every line written, in order, with the sink it went to
  invs,           \* range invocations: the generator's local state
  dicts,          \* heap of the caller's extra_data mapping objects
  now,            \* last reading of time.time()
  calls,          \* emitting calls made so far
  emit_raised,    \* the fault the last emitting call let out of _log_event
                  \* ("": none)
  ret,            \* the last accessor call: the recorder it returned, and
                  \* whether get_event_logger found the slot filled
  sink_set_on,    \* the recorder the last reconfigure(new_sink) call was made
                  \* on, until that recorder is reconfigured otherwise (0: none)
  usage,          \* the part of the interface the callers of this run use
  threads         \* concurrent callers: each thread's call, its position
                  \* in it and its local variables (<<>>: one caller only)

vars == <<recorders, event_context, loggers, sinkLog, invs, dicts, now, calls,
          emit_raised, ret, sink_set_on, usage, threads>>

(* ----------------------------- helpers --------------------------------- *)
\* a default argument of the constructor and of the accessors
Arg(x, default) == IF x = None THEN default ELSE x

\* time.time(): every reading is later than the one before
ReadingsAfter(t0) == {t0 + 1}
Readings == ReadingsAfter(now)

(* ------------------------ the logging registry ------------------------- *)
\* a logger nobody configured yet: logging.getLogger(name) creates it so
NewLogger == [handlers |-> <<>>, level |-> "NOTSET", propagate |-> TRUE]

\* Handler.emit of every handler bound to the logger, in binding order: a
\* FileHandler appends the message as one line to its file; a write that
\* fails is caught in the handler (Handler.handleError reports it on
\* stderr), so the line is lost and nothing is raised
Writable(sink) == sink # FullSink

RECURSIVE CallHandlers(_, _, _)
CallHandlers(log, handlers, line) ==
  IF handlers = <<>> THEN log
  ELSE CallHandlers(IF Writable(Head(handlers))
                    THEN Append(log, [sink |-> Head(handlers), line |-> line])
                    ELSE log,
                    Tail(handlers), line)

\* self.logger.info(msg): dropped unless the logger is enabled for INFO;
\* with no handler bound the record reaches no sink (the root logger has no
\* handler here and the last-resort handler only takes WARNING and above)
LoggerInfo(log, lg, chan, line) ==
  IF lg[chan].level = "INFO" THEN CallHandlers(log, lg[chan].handlers, line)
  ELSE log

(* --------------------------- _EventContext ----------------------------- *)
\* _setup_logger, run on an object whose _initialized is False: the logger
\* of self.logger_name gets level INFO, and only a logger with no handler
\* gets a FileHandler for self.log_file and propagate = False
\* (as if the handler were added without touching propagate)
SetupLoggerAddKeepsPropagate(lg, log_file, logger_name) ==
  IF lg[logger_name].handlers = <<>>
  THEN [lg EXCEPT ![logger_name].handlers = <<log_file>>,
                  ![logger_name].level = "INFO"]
  ELSE [lg EXCEPT ![logger_name].level = "INFO"]

SetupLoggerAdd(lg, log_file, logger_name) ==
  IF lg[logger_name].handlers = <<>>
  THEN [lg EXCEPT ![logger_name] =
          [handlers |-> <<log_file>>, level |-> "INFO", propagate |-> FALSE]]
  ELSE [lg EXCEPT ![logger_name].level = "INFO"]

SetupLogger(lg, self) ==
  IF self.initialized THEN lg
  ELSE SetupLoggerAdd(lg, self.log_file, self.logger_name)

\* the object after _setup_logger
SetupSelf(self) ==
  IF self.initialized THEN self
  ELSE [self EXCEPT !.logger = self.logger_name, !.initialized = TRUE]

\* __init__: the fields, then _setup_logger
NewSelf(log_file, logger_name) ==
  [log_file |-> log_file, logger_name |-> logger_name,
   logger |-> None, initialized |-> FALSE]

\* reconfigure: the fields that were given (a falsy argument keeps the old
\* value), every handler of the logger the object holds is removed, then
\* _setup_logger runs again
\* (as if an argument that is left out put the field back to its default)
ReconfSelfDefaults(self, log_file, logger_name) ==
  [self EXCEPT !.log_file = IF log_file # None THEN log_file
                            ELSE DefaultLogFile,
               !.logger_name = IF logger_name # None THEN logger_name
                               ELSE DefaultLoggerName,
               !.initialized = FALSE]

ReconfSelf(self, log_file, logger_name) ==
  [self EXCEPT !.log_file = IF log_file # None THEN log_file ELSE @,
               !.logger_name = IF logger_name # None THEN logger_name ELSE @,
               !.initialized = FALSE]

RemoveHandlers(lg, self) == [lg EXCEPT ![self.logger].handlers = <<>>]

(* ------------------------------ records -------------------------------- *)
\* datetime.fromtimestamp(timestamp).isoformat()
IsoFormat(t) == <<"iso", t>>

\* round(duration * 1000, 3), in thousandths of a millisecond: the nearest
\* one, a tie going to the even neighbour
RoundMs(d) ==
  LET q == d \div TicksPerMicro
      r == d % TicksPerMicro
  IN  IF 2 * r < TicksPerMicro THEN q
      ELSE IF 2 * r > TicksPerMicro THEN q + 1
      ELSE IF q % 2 = 0 THEN q ELSE q + 1

\* an extra_data argument is None (0) or a reference to a mapping object;
\* its value when it is read: None, or the content the object has then
Value(ds, x) ==
  IF x = 0 THEN [isNone |-> TRUE, map |-> {}]
  ELSE [isNone |-> FALSE, map |-> ds[x]]

\* truth value of an extra_data value: None and the empty mapping are falsy
Truthy(v) == ~v.isNone /\ v.map # {}

\* the event_record _log_event builds.  duration is Null or <<d>>;
\* extra_data is the value at the time of the call (json.dumps serialises
\* it at once) and the key is only set for a truthy value.  inv is not part
\* of the line: it names the range invocation that emitted it (0: mark).
\* (as if the key were set whatever the value: "extra_data": null for None)
EventRecordKeyAlways(request_id, event_name, event_type, timestamp, duration, extra_data, inv) ==
  [request_id |-> request_id,
   event_name |-> event_name,
   event_type |-> event_type,
   timestamp |-> timestamp,
   timestamp_iso |-> IsoFormat(timestamp),
   duration_ms |-> IF duration # Null THEN <<RoundMs(duration[1])>> ELSE Null,
   has_extra_data |-> TRUE,
   extra_data |-> IF Truthy(extra_data) THEN extra_data.map ELSE {},
   inv |-> inv]

EventRecord(request_id, event_name, event_type, timestamp, duration, extra_data, inv) ==
  [request_id |-> request_id,
   event_name |-> event_name,
   event_type |-> event_type,
   timestamp |-> timestamp,
   timestamp_iso |-> IsoFormat(timestamp),
   duration_ms |-> IF duration # Null THEN <<RoundMs(duration[1])>> ELSE Null,
   has_extra_data |-> Truthy(extra_data),
   extra_data |-> IF Truthy(extra_data) THEN extra_data.map ELSE {},
   inv |-> inv]

\* json.dumps(event_record): TypeError for a value it cannot serialise
Serializable(v) == \A p \in v.map : p[2] # ObjectValue
DumpsFault(v) == IF Truthy(v) /\ ~Serializable(v) THEN "TypeError" ELSE ""

\* _log_event: the record is serialised, then it goes to self.logger; a
\* fault of json.dumps leaves _log_event before the logger is called
LogEvent(log, lg, self, rec) == LoggerInfo(log, lg, self.logger, rec)

\* mapping[key] = value
SetItem(m, key, value) == {p \in m : p[1] # key} \cup {<<key, value>>}

(* ------------------------------- faults -------------------------------- *)
Fault(id) == CHOOSE f \in Faults : f.id = id
FaultIds == {f.id : f \in Faults}

\* str(e)
Str(id) == Fault(id).msg

\* isinstance(e, Exception): interrupts and exit requests are not
IsException(id) == Fault(id).type \in {"ValueError", "StopIteration"}

(* ------------------- the generator behind range ------------------------ *)
\* the except clause runs for a fault that is an Exception
Caught(fid) == fid # 0 /\ IsException(fid)

\* error_extra = extra_data or {}: a truthy mapping is taken itself, not a
\* copy of it; None and the empty mapping give a new empty mapping
ErrorExtraIsArgument(ds, x) == Truthy(Value(ds, x))

\* error_extra['error'] = str(e), seen through the caller's mapping objects
DictsAfterError(ds, x, fid) ==
  IF ErrorExtraIsArgument(ds, x)
  THEN [ds EXCEPT ![x] = SetItem(@, "error", Str(fid))]
  ELSE ds

\* the value of error_extra the error record is built from
ErrorExtra(ds, x, fid) ==
  [isNone |-> FALSE,
   map |-> SetItem(IF ErrorExtraIsArgument(ds, x) THEN ds[x] ELSE {},
                   "error", Str(fid))]

\* the mapping objects when the finally clause runs
DictsAtFinally(ds, x, fid) ==
  IF Caught(fid) THEN DictsAfterError(ds, x, fid) ELSE ds

\* the lines written while the generator leaves the block: the error record
\* of the except clause (timestamp t1), then the end record of the finally
\* clause (timestamp t2, duration t2 - start_time)
ExitLog(log, lg, ds, self, i, inv, fid, t1, t2) ==
  LET afterExcept ==
        IF Caught(fid)
        THEN LogEvent(log, lg, self,
               EventRecord(inv.request_id, inv.event_name, "error", t1, Null,
                           ErrorExtra(ds, inv.extra_data, fid), i))
        ELSE log
  IN  LogEvent(afterExcept, lg, self,
        EventRecord(inv.request_id, inv.event_name, "end", t2,
                    <<t2 - inv.start_time>>,
                    Value(DictsAtFinally(ds, inv.extra_data, fid),
                          inv.extra_data), i))

\* how the generator ends once the block is over: it returns, or a fault
\* leaves it (exc; -1 is a fault made on the way, cause what it was made
\* from).  The except clause re-raises what it caught and the finally
\* clause neither returns nor raises; a StopIteration that leaves a
\* generator body arrives as a RuntimeError whose cause is that fault
\* (as if the except clause ended without its raise statement: a generator
\* that handled the fault runs its finally clause and returns)
GenOutcomeNoReraise(fid) ==
  IF fid = 0 \/ Caught(fid) THEN [returns |-> TRUE, exc |-> 0, cause |-> 0]
  ELSE [returns |-> FALSE, exc |-> fid, cause |-> 0]

GenOutcome(fid) ==
  IF fid = 0 THEN [returns |-> TRUE, exc |-> 0, cause |-> 0]
  ELSE IF Fault(fid).type = "StopIteration"
       THEN [returns |-> FALSE, exc |-> -1, cause |-> fid]
       ELSE [returns |-> FALSE, exc |-> fid, cause |-> 0]

\* __exit__ of the context manager: the fault the with statement lets
\* through to the caller of range (0: none, -1: a fault other than the
\* block's).  A generator that returns swallows the block's fault; the
\* block's own fault, or the RuntimeError made from the block's
\* StopIteration, lets the block's fault through; any other fault replaces it
CallerSees(fid, out) ==
  IF fid = 0 THEN (IF out.returns THEN 0 ELSE out.exc)
  ELSE IF out.returns THEN 0
  ELSE IF out.exc = fid THEN fid
  ELSE IF Fault(fid).type = "StopIteration" /\ out.cause = fid THEN fid
  ELSE -1

(* ------------------------------- state --------------------------------- *)
Init ==
  /\ recorders = <<>>
  /\ event_context = 0
  /\ loggers = [c \in Channels |-> NewLogger]
  /\ sinkLog = <<>>
  /\ invs = <<>>
  /\ dicts = InitDicts
  /\ now = 0
  /\ calls = 0
  /\ emit_raised = ""
  /\ ret = [op |-> "none", val |-> 0, found |-> FALSE]
  /\ sink_set_on = 0
  /\ usage \in {"records", "binding", "accessors", "failures"}
  /\ threads = <<>>

(* ------------------------- what callers pass --------------------------- *)
\* A run exercises one part of the interface in full:
\*   "records"    every extra_data and every fault, with recorders that are
\*                constructed directly on the default sink path;
\*   "binding"    every sink path and channel, with recorders that are
\*                constructed directly and mark without extra_data;
\*   "accessors"  get_event_logger and init_event_logger next to direct
\*                construction, with every sink path and channel, and
\*                mark without extra_data;
\*   "failures"   emissions that fail: a sink that takes no data and a
\*                mapping that cannot be serialised, with mark and range
\*                blocks that raise nothing.
\* For the registry an accessor call that constructs is a direct
\* construction, and no emission reads the global slot, so the runs of the
\* first two kinds lose no binding that a run with accessors could reach.
\* A constructor argument that is left out is the default; only the other
\* value is passed explicitly.
SinkArgs ==
  IF usage = "records" THEN {None}
  ELSE IF usage = "failures" THEN {None, FullSink}
  ELSE Sinks \cup {None}
ChannelArgs == Channels \cup {None}
ReconfChannelArgs == IF usage = "failures" THEN {None} ELSE ChannelArgs
NewSinkArgs == SinkArgs \ {DefaultLogFile}
NewChannelArgs == ChannelArgs \ {DefaultLoggerName}
AccessorSinkArgs == IF usage = "accessors" THEN NewSinkArgs ELSE {}
ExtraArgs ==
  IF usage = "records" THEN {0} \cup DictIds
  ELSE IF usage = "failures" THEN {0, BadDictId}
  ELSE {0}
FaultArgs == IF usage = "records" THEN {0} \cup FaultIds ELSE {0}
ReconfSinkArgs ==
  IF usage \in {"binding", "accessors"} THEN SinkArgs ELSE {None}
RangeUsers == IF usage \in {"records", "failures"} THEN 1..MaxRec ELSE {}

\* _EventContext(log_file, logger_name) on the registry lg: the new
\* registry and the new object
Constructed(lg, log_file, logger_name) ==
  LET self == NewSelf(Arg(log_file, DefaultLogFile),
                      Arg(logger_name, DefaultLoggerName))
  IN  [loggers |-> SetupLogger(lg, self), self |-> SetupSelf(self)]

(* ------------------------------ actions -------------------------------- *)
\* a caller constructs a recorder of its own
Construct(log_file, logger_name) ==
  /\ Len(recorders) < MaxRec
  /\ LET c == Constructed(loggers, log_file, logger_name)
     IN  /\ recorders' = Append(recorders, c.self)
         /\ loggers' = c.loggers
  /\ UNCHANGED <<event_context, sinkLog, invs, dicts, now, calls, emit_raised, ret, sink_set_on, usage, threads>>

\* (as if get_event_logger did not test the slot before constructing)
GetEventLoggerNoTest(log_file, logger_name) ==
  /\ Len(recorders) < MaxRec
  /\ LET c == Constructed(loggers, log_file, logger_name)
     IN  /\ recorders' = Append(recorders, c.self)
         /\ loggers' = c.loggers
  /\ event_context' = Len(recorders) + 1
  /\ ret' = [op |-> "get", val |-> event_context',
             found |-> event_context # 0]
  /\ UNCHANGED <<sinkLog, invs, dicts, now, calls, emit_raised, sink_set_on, usage, threads>>

\* get_event_logger(log_file, logger_name)
GetEventLogger(log_file, logger_name) ==
  /\ IF event_context = 0
     THEN /\ Len(recorders) < MaxRec
          /\ LET c == Constructed(loggers, log_file, logger_name)
             IN  /\ recorders' = Append(recorders, c.self)
                 /\ loggers' = c.loggers
          /\ event_context' = Len(recorders) + 1
     ELSE UNCHANGED <<recorders, loggers, event_context>>
  /\ ret' = [op |-> "get", val |-> event_context',
             found |-> event_context # 0]
  /\ UNCHANGED <<sinkLog, invs, dicts, now, calls, emit_raised, sink_set_on, usage, threads>>

\* (as if init_event_logger kept a recorder that is in the slot)
InitEventLoggerKeeps(log_file, logger_name) ==
  /\ IF event_context = 0
     THEN /\ Len(recorders) < MaxRec
          /\ LET c == Constructed(loggers, log_file, logger_name)
             IN  /\ recorders' = Append(recorders, c.self)
                 /\ loggers' = c.loggers
          /\ event_context' = Len(recorders) + 1
     ELSE UNCHANGED <<recorders, loggers, event_context>>
  /\ ret' = [op |-> "init", val |-> event_context', found |-> FALSE]
  /\ UNCHANGED <<sinkLog, invs, dicts, now, calls, emit_raised, sink_set_on, usage, threads>>

\* init_event_logger(log_file, logger_name)
InitEventLogger(log_file, logger_name) ==
  /\ Len(recorders) < MaxRec
  /\ LET c == Constructed(loggers, log_file, logger_name)
     IN  /\ recorders' = Append(recorders, c.self)
         /\ loggers' = c.loggers
  /\ event_context' = Len(recorders) + 1
  /\ ret' = [op |-> "init", val |-> event_context', found |-> FALSE]
  /\ UNCHANGED <<sinkLog, invs, dicts, now, calls, emit_raised, sink_set_on, usage, threads>>

\* recorders[r].reconfigure(log_file, logger_name)
Reconfigure(r, log_file, logger_name) ==
  /\ r \in 1..Len(recorders)
  /\ LET self == ReconfSelf(recorders[r], log_file, logger_name)
         lg == RemoveHandlers(loggers, self)
     IN  /\ loggers' = SetupLogger(lg, self)
         /\ recorders' = [recorders EXCEPT ![r] = SetupSelf(self)]
  /\ sink_set_on' = IF log_file # None /\ logger_name = None THEN r
                    ELSE IF sink_set_on = r THEN 0 ELSE sink_set_on
  /\ UNCHANGED <<event_context, sinkLog, invs, dicts, now, calls, emit_raised, ret, usage, threads>>

\* recorders[r].mark(request_id, event_name, extra_data)
Mark(r, request_id, event_name, extra_data) ==
  /\ r \in 1..Len(recorders)
  /\ calls < MaxCalls
  /\ calls' = calls + 1
  /\ emit_raised' = DumpsFault(Value(dicts, extra_data))
  /\ \E t \in Readings :
       /\ now' = t
       /\ sinkLog' = IF emit_raised' # "" THEN sinkLog
                     ELSE LogEvent(sinkLog, loggers, recorders[r],
                            EventRecord(request_id, event_name, "instant", t,
                                        Null, Value(dicts, extra_data), 0))
  /\ UNCHANGED <<recorders, event_context, loggers, invs, dicts, ret, sink_set_on, usage, threads>>

\* entering "with recorders[r].range(request_id, event_name, extra_data)":
\* the generator runs up to its yield; a fault of the start record's
\* _log_event leaves the generator before its try statement, so the with
\* statement raises it and the block is not run (pc "failed")
RangeEnter(r, request_id, event_name, extra_data) ==
  /\ r \in 1..Len(recorders)
  /\ calls < MaxCalls
  /\ calls' = calls + 1
  /\ emit_raised' = DumpsFault(Value(dicts, extra_data))
  /\ \E t \in Readings :
       /\ now' = t
       /\ sinkLog' = IF emit_raised' # "" THEN sinkLog
                     ELSE LogEvent(sinkLog, loggers, recorders[r],
                            EventRecord(request_id, event_name, "start", t,
                                        Null, Value(dicts, extra_data),
                                        Len(invs) + 1))
       /\ invs' = Append(invs,
                    [rec |-> r, request_id |-> request_id,
                     event_name |-> event_name, extra_data |-> extra_data,
                     start_time |-> t,
                     pc |-> IF emit_raised' # "" THEN "failed" ELSE "block",
                     entry |-> Value(dicts, extra_data),
                     fault |-> 0, raised |-> 0])
  /\ UNCHANGED <<recorders, event_context, loggers, dicts, ret, sink_set_on, usage, threads>>

\* the block of invocation i is over, normally (fid = 0) or by raising the
\* fault fid: the generator is resumed and runs to its end.  The mapping
\* was serialised for the start record and has at most gained a string
\* under 'error', so json.dumps raises nothing here
RangeExit(i, fid) ==
  /\ i \in 1..Len(invs)
  /\ invs[i].pc = "block"
  /\ calls < MaxCalls
  /\ calls' = calls + 1
  /\ \E t1 \in (IF Caught(fid) THEN Readings ELSE {now}) :
       \E t2 \in ReadingsAfter(t1) :
         /\ now' = t2
         /\ sinkLog' = ExitLog(sinkLog, loggers, dicts,
                               recorders[invs[i].rec], i, invs[i], fid, t1, t2)
  /\ dicts' = DictsAtFinally(dicts, invs[i].extra_data, fid)
  /\ emit_raised' = ""
  /\ invs' = [invs EXCEPT ![i].pc = "done", ![i].fault = fid,
                          ![i].raised = CallerSees(fid, GenOutcome(fid))]
  /\ UNCHANGED <<recorders, event_context, loggers, ret, sink_set_on, usage, threads>>

Next ==
  \/ \E lf \in NewSinkArgs, ln \in NewChannelArgs : Construct(lf, ln)
  \/ \E lf \in AccessorSinkArgs, ln \in NewChannelArgs :
       GetEventLogger(lf, ln)
  \/ \E lf \in AccessorSinkArgs, ln \in NewChannelArgs :
       InitEventLogger(lf, ln)
  \/ \E r \in 1..MaxRec, lf \in ReconfSinkArgs, ln \in ReconfChannelArgs :
       Reconfigure(r, lf, ln)
  \/ \E r \in 1..MaxRec, rid \in RequestIds, name \in EventNames,
        x \in ExtraArgs : Mark(r, rid, name, x)
  \/ \E r \in RangeUsers, rid \in RequestIds, name \in EventNames,
        x \in ExtraArgs : RangeEnter(r, rid, name, x)
  \/ \E i \in 1..MaxCalls, fid \in FaultArgs : RangeExit(i, fid)

Spec == Init /\ [][Next]_vars

\* the runs in which callers construct, use the accessors and reconfigure,
\* and emit nothing: the calls that decide what the slot and the bindings
\* are
InitBinding == Init /\ usage \in {"binding", "accessors"}

NextBinding ==
  \/ \E lf \in NewSinkArgs, ln \in NewChannelArgs : Construct(lf, ln)
  \/ \E lf \in AccessorSinkArgs, ln \in NewChannelArgs :
       GetEventLogger(lf, ln)
  \/ \E lf \in AccessorSinkArgs, ln \in NewChannelArgs :
       InitEventLogger(lf, ln)
  \/ \E r \in 1..MaxRec, lf \in ReconfSinkArgs, ln \in ReconfChannelArgs :
       Reconfigure(r, lf, ln)

SpecBinding == InitBinding /\ [][NextBinding]_vars

\* the runs in which callers emit with every extra_data and every fault,
\* through recorders they constructed and move between channels
InitRecords == Init /\ usage = "records"

NextRecords ==
  \/ \E lf \in NewSinkArgs, ln \in NewChannelArgs : Construct(lf, ln)
  \/ \E r \in 1..MaxRec, lf \in ReconfSinkArgs, ln \in ReconfChannelArgs :
       Reconfigure(r, lf, ln)
  \/ \E r \in 1..MaxRec, rid \in RequestIds, name \in EventNames,
        x \in ExtraArgs : Mark(r, rid, name, x)
  \/ \E r \in RangeUsers, rid \in RequestIds, name \in EventNames,
        x \in ExtraArgs : RangeEnter(r, rid, name, x)
  \/ \E i \in 1..MaxCalls, fid \in FaultArgs : RangeExit(i, fid)

SpecRecords == InitRecords /\ [][NextRecords]_vars

(* ------------------------- concurrent callers -------------------------- *)
\* Two threads call into the module with no lock between them.  A thread
\* can be switched out between any two statements; a step below is a run
\* of statements of one thread, cut where the result depends on what the
\* other thread did in between.
Threads == {1, 2}
ThreadSinkArgs == {None, "t.log"}

IdleThread ==
  [op |-> "none", pc |-> "idle", self |-> 0, log_file |-> None,
   logger_name |-> None, sawEmpty |-> FALSE, snapshot |-> <<>>, ret |-> 0]

\* Logger.removeHandler(h): the first occurrence of h, if there is one
RECURSIVE RemoveHandler(_, _)
RemoveHandler(handlers, h) ==
  IF handlers = <<>> THEN <<>>
  ELSE IF Head(handlers) = h THEN Tail(handlers)
  ELSE <<Head(handlers)>> \o RemoveHandler(Tail(handlers), h)

\* for handler in snapshot: removeHandler(handler)
RECURSIVE RemoveEach(_, _)
RemoveEach(handlers, snapshot) ==
  IF snapshot = <<>> THEN handlers
  ELSE RemoveEach(RemoveHandler(handlers, Head(snapshot)), Tail(snapshot))

\* the threads start with the slot empty, and with no recorder or with one
\* that a caller constructed with the defaults beforehand
InitThreads ==
  /\ \E pre \in BOOLEAN :
       LET c == Constructed([ch \in Channels |-> NewLogger], None, None)
       IN  IF pre
           THEN recorders = <<c.self>> /\ loggers = c.loggers
           ELSE recorders = <<>> /\ loggers = [ch \in Channels |-> NewLogger]
  /\ event_context = 0
  /\ sinkLog = <<>>
  /\ invs = <<>>
  /\ dicts = InitDicts
  /\ now = 0
  /\ calls = 0
  /\ emit_raised = ""
  /\ ret = [op |-> "none", val |-> 0, found |-> FALSE]
  /\ sink_set_on = 0
  /\ usage = "threads"
  /\ threads = [t \in Threads |-> IdleThread]

SeqVars == <<sinkLog, invs, dicts, now, calls, emit_raised, ret, sink_set_on,
            usage>>

\* thread t calls get_event_logger(log_file) or init_event_logger(log_file)
TCallAccessor(t, op, log_file) ==
  /\ threads[t].pc = "idle"
  /\ threads' = [threads EXCEPT ![t].op = op, ![t].log_file = log_file,
                                ![t].pc = IF op = "get" THEN "test" ELSE "new"]
  /\ UNCHANGED <<recorders, event_context, loggers, SeqVars>>

\* the recorders a thread can have a reference to: the one that existed
\* before the threads started, and the one in the slot
Published(r) ==
  \/ r = event_context
  \/ \A t \in Threads :
       threads[t].op \in {"get", "init"} => threads[t].self # r

\* thread t calls recorders[r].reconfigure(log_file)
TCallReconfigure(t, r, log_file) ==
  /\ threads[t].pc = "idle"
  /\ r \in 1..Len(recorders)
  /\ Published(r)
  /\ threads' = [threads EXCEPT ![t].op = "reconf", ![t].self = r,
                                ![t].log_file = log_file, ![t].pc = "reconf"]
  /\ UNCHANGED <<recorders, event_context, loggers, SeqVars>>

\* get_event_logger: if _event_context is None
TTest(t) ==
  /\ threads[t].pc = "test"
  /\ threads' = [threads EXCEPT
                   ![t].pc = IF event_context = 0 THEN "new" ELSE "return"]
  /\ UNCHANGED <<recorders, event_context, loggers, SeqVars>>

\* _EventContext(log_file, logger_name) up to the test of the handler list:
\* __init__ sets the fields of the new object, _setup_logger takes the
\* logger of the channel, sets its level and reads its handler list
TNew(t) ==
  /\ threads[t].pc = "new"
  /\ LET self == NewSelf(Arg(threads[t].log_file, DefaultLogFile),
                         Arg(threads[t].logger_name, DefaultLoggerName))
     IN  /\ recorders' = Append(recorders,
                                [self EXCEPT !.logger = self.logger_name])
         /\ loggers' = [loggers EXCEPT ![self.logger_name].level = "INFO"]
         /\ threads' = [threads EXCEPT
                          ![t].self = Len(recorders) + 1,
                          ![t].sawEmpty =
                            (loggers[self.logger_name].handlers = <<>>),
                          ![t].pc = "bind"]
  /\ UNCHANGED <<event_context, SeqVars>>

\* reconfigure up to the copy of the handler list: the fields that were
\* given, then self.logger.handlers[:]
TReconf(t) ==
  /\ threads[t].pc = "reconf"
  /\ LET self == recorders[threads[t].self]
     IN  /\ recorders' =
              [recorders EXCEPT ![threads[t].self] =
                 [self EXCEPT
                    !.log_file = IF threads[t].log_file # None
                                 THEN threads[t].log_file ELSE @,
                    !.logger_name = IF threads[t].logger_name # None
                                    THEN threads[t].logger_name ELSE @]]
         /\ threads' = [threads EXCEPT
                          ![t].snapshot = loggers[self.logger].handlers,
                          ![t].pc = "remove"]
  /\ UNCHANGED <<event_context, loggers, SeqVars>>

\* reconfigure: the handlers of the copy are removed, _initialized = False
TRemove(t) ==
  /\ threads[t].pc = "remove"
  /\ LET self == recorders[threads[t].self]
     IN  /\ loggers' = [loggers EXCEPT ![self.logger].handlers =
                          RemoveEach(@, threads[t].snapshot)]
         /\ recorders' = [recorders EXCEPT
                            ![threads[t].self].initialized = FALSE]
  /\ threads' = [threads EXCEPT ![t].pc = "setup"]
  /\ UNCHANGED <<event_context, SeqVars>>

\* _setup_logger called by reconfigure, up to the test of the handler
\* list; it returns at once when the other thread has set _initialized
TSetup(t) ==
  /\ threads[t].pc = "setup"
  /\ LET self == recorders[threads[t].self]
     IN  IF self.initialized
         THEN /\ threads' = [threads EXCEPT ![t].pc = "done"]
              /\ UNCHANGED <<recorders, loggers>>
         ELSE /\ recorders' = [recorders EXCEPT
                                 ![threads[t].self].logger = self.logger_name]
              /\ loggers' = [loggers EXCEPT
                               ![self.logger_name].level = "INFO"]
              /\ threads' = [threads EXCEPT
                               ![t].sawEmpty =
                                 (loggers[self.logger_name].handlers = <<>>),
                               ![t].pc = "bind"]
  /\ UNCHANGED <<event_context, SeqVars>>

\* the rest of _setup_logger: when the handler list was empty a
\* FileHandler for self.log_file is added and propagate is set to False;
\* then _initialized = True
TBind(t) ==
  /\ threads[t].pc = "bind"
  /\ LET self == recorders[threads[t].self]
     IN  /\ loggers' =
              IF threads[t].sawEmpty
              THEN [loggers EXCEPT
                      ![self.logger].handlers = Append(@, self.log_file),
                      ![self.logger].propagate = FALSE]
              ELSE loggers
         /\ recorders' = [recorders EXCEPT
                            ![threads[t].self].initialized = TRUE]
  /\ threads' = [threads EXCEPT
                   ![t].pc = IF threads[t].op = "reconf" THEN "done"
                             ELSE "assign"]
  /\ UNCHANGED <<event_context, SeqVars>>

\* _event_context = the new object
TAssign(t) ==
  /\ threads[t].pc = "assign"
  /\ event_context' = threads[t].self
  /\ threads' = [threads EXCEPT ![t].pc = "return"]
  /\ UNCHANGED <<recorders, loggers, SeqVars>>

\* return _event_context
TReturn(t) ==
  /\ threads[t].pc = "return"
  /\ threads' = [threads EXCEPT ![t].ret = event_context, ![t].pc = "done"]
  /\ UNCHANGED <<recorders, event_context, loggers, SeqVars>>

NextThreads ==
  \/ \E t \in Threads, op \in {"get", "init"}, lf \in ThreadSinkArgs :
       TCallAccessor(t, op, lf)
  \/ \E t \in Threads, r \in 1..Len(recorders), lf \in ThreadSinkArgs :
       TCallReconfigure(t, r, lf)
  \/ \E t \in Threads : TTest(t)
  \/ \E t \in Threads : TNew(t)
  \/ \E t \in Threads : TReconf(t)
  \/ \E t \in Threads : TRemove(t)
  \/ \E t \in Threads : TSetup(t)
  \/ \E t \in Threads : TBind(t)
  \/ \E t \in Threads : TAssign(t)
  \/ \E t \in Threads : TReturn(t)

SpecThreads == InitThreads /\ [][NextThreads]_vars

(* ======================= properties of range =========================== *)
\* the lines invocation i has in the sinks, in the order they were written
InvLines(i) == SelectSeq(sinkLog, LAMBDA e : e.line.inv = i)
InvTypes(i) == [k \in 1..Len(InvLines(i)) |-> InvLines(i)[k].line.event_type]
InvLinesOfType(i, ty) ==
  {InvLines(i)[k].line : k \in {j \in 1..Len(InvLines(i)) : InvTypes(i)[j] = ty}}
Done(i) == invs[i].pc = "done"
StartWritten(i) == InvLinesOfType(i, "start") # {}

\* C1: a range invocation whose start record was written leaves in the
\* sinks, in this order, exactly one start record, at most one error record
\* and exactly one end record, however its block ends; before the block
\* ends it has left the start record alone.
C1_StartErrorEnd ==
  \A i \in 1..Len(invs) :
    StartWritten(i) =>
      IF Done(i)
      THEN InvTypes(i) \in {<<"start", "end">>, <<"start", "error", "end">>}
      ELSE InvTypes(i) = <<"start">>

\* C2: a range invocation whose block raised a fault, of whatever kind,
\* has left exactly three lines, start, error, end, and the error line's
\* extra_data.error is the string form of the fault.
C2_ThreeLinesOnAnyFault ==
  \A i \in 1..Len(invs) :
    (Done(i) /\ invs[i].fault # 0) =>
      /\ InvTypes(i) = <<"start", "error", "end">>
      /\ <<"error", Str(invs[i].fault)>> \in InvLines(i)[2].line.extra_data

\* C3: the fault that reaches the caller of range is the fault the block
\* raised, the same object; none when the block raised none.  It is never
\* dropped and never replaced.
C3_FaultTransparent ==
  \A i \in 1..Len(invs) : Done(i) => invs[i].raised = invs[i].fault

\* C3 witness: a block raised an Exception, the except clause and the
\* finally clause ran, and that fault reached the caller.
C3_Witness ==
  \E i \in 1..Len(invs) :
    /\ Done(i) /\ invs[i].fault # 0 /\ IsException(invs[i].fault)
    /\ invs[i].raised = invs[i].fault
    /\ InvTypes(i) = <<"start", "error", "end">>

\* C4: when the block raised, the end record carries the extra_data the
\* caller passed on entry, as it was then (so without the 'error' key of
\* the error record), and the start and end records carry the same
\* extra_data.
C4_EndCarriesOriginalExtra ==
  \A i \in 1..Len(invs) :
    (Done(i) /\ invs[i].fault # 0) =>
      \A e \in InvLinesOfType(i, "end") :
        /\ e.has_extra_data = Truthy(invs[i].entry)
        /\ e.extra_data = (IF Truthy(invs[i].entry) THEN invs[i].entry.map
                           ELSE {})
        /\ \A st \in InvLinesOfType(i, "start") :
             /\ st.has_extra_data = e.has_extra_data
             /\ st.extra_data = e.extra_data

\* C5: a range invocation whose block ended without fault has left exactly
\* two lines, a start record and then an end record, both with its
\* request_id and event_name; the start record has a null duration_ms and
\* the end record's duration_ms is the rounded difference of these two
\* records' timestamps.
C5_StartEndPair ==
  \A i \in 1..Len(invs) :
    (Done(i) /\ invs[i].fault = 0) =>
      /\ InvTypes(i) = <<"start", "end">>
      /\ \A k \in 1..2 :
           /\ InvLines(i)[k].line.request_id = invs[i].request_id
           /\ InvLines(i)[k].line.event_name = invs[i].event_name
      /\ InvLines(i)[1].line.duration_ms = Null
      /\ InvLines(i)[2].line.duration_ms =
           <<RoundMs(InvLines(i)[2].line.timestamp
                     - InvLines(i)[1].line.timestamp)>>

(* =============== properties of the binding and the slot ================ *)
AnySink == Sinks \cup {None}
AnyChannel == Channels \cup {None}
AnyExtra == {0} \cup DictIds

\* the lines the step has added to the sinks
NewLines == SubSeq(sinkLog', Len(sinkLog) + 1, Len(sinkLog'))
AddsLinesTo(n, sink) ==
  /\ Len(sinkLog') = Len(sinkLog) + n
  /\ SubSeq(sinkLog', 1, Len(sinkLog)) = sinkLog
  /\ \A k \in 1..Len(NewLines) : NewLines[k].sink = sink

\* the bindings are as constructions alone leave them: a channel has the
\* handler its first recorder was constructed with, and no reconfigure
\* call has changed that
ConstructedOnly ==
  \A c \in Channels :
    LET rs == {r \in 1..Len(recorders) : recorders[r].logger = c}
    IN  IF rs = {} THEN loggers[c].handlers = <<>>
        ELSE loggers[c].handlers =
               <<recorders[CHOOSE r \in rs : \A q \in rs : r <= q].log_file>>

\* C6: with the bindings as constructions alone leave them, every record
\* emitted through a recorder (by mark, on entering a range, on leaving it)
\* makes exactly one line in the sink path that recorder was constructed
\* with.
C6_EmitsToOwnSink ==
  [][ConstructedOnly =>
       /\ \A r \in 1..Len(recorders), rid \in RequestIds,
             name \in EventNames, x \in AnyExtra :
            (Mark(r, rid, name, x) \/ RangeEnter(r, rid, name, x))
              => AddsLinesTo(1, recorders[r].log_file)
       /\ \A i \in 1..Len(invs), fid \in {0} \cup FaultIds :
            RangeExit(i, fid)
              => AddsLinesTo(IF Caught(fid) THEN 2 ELSE 1,
                             recorders[invs[i].rec].log_file)]_vars

\* C7: after reconfigure(new_sink) on a recorder, and until that recorder
\* is reconfigured again, every mark through it adds its one line to
\* new_sink (the recorder's sink path since that call) and to no other sink.
C7_MarksGoToNewSink ==
  [][\A r \in 1..Len(recorders), rid \in RequestIds, name \in EventNames,
        x \in AnyExtra :
       (sink_set_on = r /\ Mark(r, rid, name, x))
         => AddsLinesTo(1, recorders[r].log_file)]_vars

\* a step that is a call of init_event_logger
InitStep == \E lf \in AnySink, ln \in AnyChannel : InitEventLogger(lf, ln)

\* the slot, once filled, changes with init_event_logger calls only
SlotKept == (event_context # 0 /\ ~InitStep) => event_context' = event_context

\* C8: a get_event_logger call that finds the slot filled returns the
\* recorder in the slot, whatever its arguments, and changes neither the
\* slot nor any recorder nor any binding; every get_event_logger call
\* returns the recorder in the slot, and the slot keeps its recorder while
\* no init_event_logger call is made: all calls return what the first did.
C8_GetIdempotent ==
  [][/\ \A lf \in AnySink, ln \in AnyChannel :
          GetEventLogger(lf, ln) =>
            /\ ret'.val = event_context'
            /\ event_context # 0 =>
                 /\ ret'.val = event_context
                 /\ UNCHANGED <<event_context, recorders, loggers>>
     /\ SlotKept]_vars

\* C8 witness: a get_event_logger call found the slot filled and returned
\* the recorder in it, in a run where a second recorder exists.
C8_Witness ==
  /\ ret.op = "get" /\ ret.found
  /\ ret.val = event_context /\ event_context # 0
  /\ Len(recorders) >= 2

\* C9: init_event_logger constructs a recorder that is none of those that
\* existed, with the sink path and channel given (or the defaults), leaves
\* the older recorders as they are, puts the new one into the slot and
\* returns it; get_event_logger then returns the recorder in the slot,
\* which stays until the next init_event_logger call.
C9_InitReplaces ==
  [][/\ \A lf \in AnySink, ln \in AnyChannel :
          /\ InitEventLogger(lf, ln) =>
               /\ ret'.val \notin 1..Len(recorders)
               /\ ret'.val \in 1..Len(recorders')
               /\ recorders'[ret'.val].log_file = Arg(lf, DefaultLogFile)
               /\ recorders'[ret'.val].logger_name =
                    Arg(ln, DefaultLoggerName)
               /\ SubSeq(recorders', 1, Len(recorders)) = recorders
               /\ event_context' = ret'.val
          /\ (GetEventLogger(lf, ln) /\ event_context # 0) =>
               ret'.val = event_context
     /\ SlotKept]_vars

\* C9 witness: init_event_logger replaced a recorder that was in the slot.
C9_Witness ==
  /\ ret.op = "init" /\ ret.val = event_context
  /\ ret.val >= 2
  /\ recorders[ret.val].initialized

\* C10: mark adds exactly one line to the sinks, an instant record with
\* the given request_id and event_name and a null duration_ms, and changes
\* no recorder, no binding and not the slot.
C10_MarkOneLine ==
  [][\A r \in 1..Len(recorders), rid \in RequestIds, name \in EventNames,
        x \in AnyExtra :
       Mark(r, rid, name, x) =>
         /\ Len(sinkLog') = Len(sinkLog) + 1
         /\ SubSeq(sinkLog', 1, Len(sinkLog)) = sinkLog
         /\ LET l == sinkLog'[Len(sinkLog')].line
            IN  /\ l.event_type = "instant"
                /\ l.request_id = rid
                /\ l.event_name = name
                /\ l.duration_ms = Null
         /\ UNCHANGED <<recorders, loggers, event_context>>]_vars

(* ===================== properties of the records ======================= *)
\* C11: a record emitted by a call that was given no extra_data has no
\* extra_data key: the instant record of mark, the start record of range,
\* and the end record of range whether the block raised or not.
C11_NoKeyWithoutExtra ==
  [][/\ \A r \in 1..Len(recorders), rid \in RequestIds, name \in EventNames :
          (Mark(r, rid, name, 0) \/ RangeEnter(r, rid, name, 0)) =>
            \A k \in 1..Len(NewLines) : ~NewLines[k].line.has_extra_data
     /\ \A i \in 1..Len(invs), fid \in {0} \cup FaultIds :
          (invs[i].extra_data = 0 /\ RangeExit(i, fid)) =>
            \A k \in 1..Len(NewLines) :
              NewLines[k].line.event_type = "end"
                => ~NewLines[k].line.has_extra_data]_vars

\* C11 witness: a range that was given no extra_data and whose block raised
\* an Exception has left a start and an end record without the key, around
\* an error record that has it.
C11_Witness ==
  \E i \in 1..Len(invs) :
    /\ Done(i) /\ invs[i].extra_data = 0 /\ Caught(invs[i].fault)
    /\ InvTypes(i) = <<"start", "error", "end">>
    /\ ~InvLines(i)[1].line.has_extra_data
    /\ InvLines(i)[2].line.has_extra_data
    /\ ~InvLines(i)[3].line.has_extra_data

(* ================== properties of the handler binding ================== *)
\* the recorders that hold the logger of channel c
BoundTo(c) == {r \in 1..Len(recorders) : recorders[r].logger = c}

\* C12: every channel has at most one handler bound, and a channel that
\* some recorder holds has exactly one.
C12_OneHandlerPerChannel ==
  \A c \in Channels :
    /\ Len(loggers[c].handlers) <= 1
    /\ BoundTo(c) # {} => Len(loggers[c].handlers) = 1

(* ==================== properties of failed emissions ================== *)
\* the emission of a record with extra_data x through recorder r fails:
\* the record cannot be serialised, or a sink it is written to takes no data
SerializationFails(x) == DumpsFault(Value(dicts, x)) # ""
SinkWriteFails(r) ==
  \E k \in 1..Len(loggers[recorders[r].logger].handlers) :
    ~Writable(loggers[recorders[r].logger].handlers[k])
EmitFails(r, x) == SerializationFails(x) \/ SinkWriteFails(r)

\* C13: a mark whose emission fails raises that failure to its caller; a
\* range whose start record's emission fails raises it on entry, its block
\* is not run, and it leaves no record.
C13_EmitFailurePropagates ==
  [][\A r \in 1..Len(recorders), rid \in RequestIds, name \in EventNames,
        x \in {0} \cup AllDictIds :
       /\ (EmitFails(r, x) /\ Mark(r, rid, name, x)) => emit_raised' # ""
       /\ (EmitFails(r, x) /\ RangeEnter(r, rid, name, x)) =>
            /\ emit_raised' # ""
            /\ invs'[Len(invs')].pc = "failed"]_vars

(* ====================== properties of reconfigure ====================== *)
\* C14: reconfigure leaves the slot and every other recorder as they are,
\* sets the fields that were given and keeps the others, and detaches the
\* handlers of the channel the recorder was bound to: that channel is left
\* without handler, or, when the recorder stays on it, with the one new
\* handler for the recorder's sink path.
C14_ReconfigureInPlace ==
  [][\A r \in 1..Len(recorders), lf \in ReconfSinkArgs,
        ln \in ReconfChannelArgs :
       Reconfigure(r, lf, ln) =>
         /\ event_context' = event_context
         /\ Len(recorders') = Len(recorders)
         /\ \A q \in 1..Len(recorders) : q # r => recorders'[q] = recorders[q]
         /\ recorders'[r].log_file =
              (IF lf = None THEN recorders[r].log_file ELSE lf)
         /\ recorders'[r].logger_name =
              (IF ln = None THEN recorders[r].logger_name ELSE ln)
         /\ recorders'[r].logger = recorders'[r].logger_name
         /\ IF recorders'[r].logger = recorders[r].logger
            THEN loggers'[recorders[r].logger].handlers =
                   <<recorders'[r].log_file>>
            ELSE loggers'[recorders[r].logger].handlers = <<>>]_vars

\* C14 witness: the recorder in the slot, which get_event_logger returned,
\* has been moved from the default channel to another one by reconfigure:
\* the default channel is configured and has lost its handler.
C14_Witness ==
  /\ event_context # 0 /\ ret.op = "get" /\ ret.val = event_context
  /\ recorders[event_context].logger = "ch"
  /\ loggers[DefaultLoggerName].level = "INFO"
  /\ loggers[DefaultLoggerName].handlers = <<>>

C16_CallerMappingUntouched ==
  /\ dicts = InitDicts
  /\ \A k \in 1..Len(sinkLog) :
       sinkLog[k].line.event_type \in {"start", "instant"} =>
         \A p \in sinkLog[k].line.extra_data : p[1] # "error"

(* ================== properties of concurrent callers =================== *)
AllDone == \A t \in Threads : threads[t].pc = "done"

\* C17: when two threads have each called get_event_logger, with the slot
\* empty at the start, exactly one recorder has been constructed and both
\* calls have returned that recorder.
C17_OneSingletonUnderRace ==
  (usage = "threads" /\ AllDone
     /\ \A t \in Threads : threads[t].op = "get") =>
    /\ Cardinality({t \in Threads : threads[t].self # 0}) = 1
    /\ \A t, u \in Threads : threads[t].ret = threads[u].ret

\* C18: when two threads have each constructed or reconfigured a recorder
\* on the default channel and both calls have returned, that channel has
\* exactly one handler, and a record emitted on it is written exactly once.
C18_OneHandlerUnderRace ==
  (usage = "threads" /\ AllDone) =>
    /\ Len(loggers[DefaultLoggerName].handlers) = 1
    /\ Len(LoggerInfo(<<>>, loggers, DefaultLoggerName, "line")) = 1

====
